---- MODULE Spec2Model ----
(***************************************************************************)
(* The job pipeline of server-dashboard: the in-process queue              *)
(* (jobs/queue.py), the file-backed record store (jobs/store.py), the      *)
(* worker loop and its pipeline (jobs/worker.py) and the HTTP handlers of  *)
(* app.py that create and cancel jobs and restart the worker.              *)
(*                                                                         *)
(* Every thread of the program (a worker loop thread, one invocation of an *)
(* HTTP handler) is a process with a program counter pc[p].  A step of a   *)
(* process is one access to shared state (the record file, the queue, the  *)
(* running flag, the counters, the backend) together with the local        *)
(* computation that follows it.                                            *)
(***************************************************************************)
EXTENDS Integers, Sequences, FiniteSets, TLC

\* ------------------------------------------------------------------ bounds
MaxJobs == 2          \* create requests, one fresh uuid each
MaxCancels == 1       \* cancel requests
MaxThreads == 2       \* worker loop threads ever spawned
MaxWorkers == 2       \* JobWorker objects ever constructed
MaxNow == 1           \* readings of the wall clock (Job.now)
MaxStagings == 2      \* runs of _stage_input on one job
MaxBoots == 1         \* restarts of the process
MaxClients == 2       \* ComfyUIClient objects ever constructed
TimeoutTicks == 1     \* timeout_seconds, in units of one poll_interval

Jobs == 1..MaxJobs
PipelineJobs == {1}   \* the jobs of the specification of one pipeline
PipelineCancels == {1}
StopJobs == {1, 2}
CancelReqs == 1..MaxCancels
Threads == 1..MaxThreads
Workers == 1..MaxWorkers

\* Python's None
None == "<None>"

\* ------------------------------------------------- jobs/models.py
\* JobStatus: member name -> value
JobStatus ==
  [QUEUED |-> "queued", RUNNING |-> "running", COMPLETED |-> "completed",
   FAILED |-> "failed", TIMED_OUT |-> "timed_out", CANCELED |-> "canceled"]

StatusNames == DOMAIN JobStatus

\* JobStatus(value): the member whose value is v
JobStatusOf(v) == CHOOSE n \in StatusNames : JobStatus[n] = v

\* A from_dict that leaves the status as the string found in the file
from_dict_raw(d) == d

\* Job.from_dict: the status string becomes the member again
from_dict(d) == [d EXCEPT !.status = JobStatusOf(d.status)]

\* The fields of the Job dataclass (hasattr(job, key) in JobStore.update)
JobFields ==
  {"id", "status", "created_at", "updated_at", "prompt", "input_image_url",
   "prompt_id", "progress", "files", "error", "telegram_chat_id",
   "webhook_url", "params"}

\* The methods of Job: attributes of a job object as well
JobMethods == {"to_dict", "from_dict", "now"}

\* hasattr(job, key)
hasattr(key) == key \in JobFields \cup JobMethods

\* Job.to_dict: asdict (the fields of the dataclass, whatever else was set on
\* the object), with the status member replaced by its value
to_dict(job) ==
  [f \in JobFields |-> IF f = "status" THEN JobStatus[job.status] ELSE job[f]]

\* Job(...) as the create handler builds it: the defaults of the dataclass
NewJob(id, t, tmpl) ==
  [id |-> id, status |-> "QUEUED", created_at |-> t, updated_at |-> t,
   prompt |-> tmpl.prompt, input_image_url |-> tmpl.input_image_url,
   prompt_id |-> None, progress |-> 0, files |-> <<>>, error |-> None,
   telegram_chat_id |-> tmpl.telegram_chat_id,
   webhook_url |-> tmpl.webhook_url, params |-> tmpl.params]

\* What the producers put into a job: the create handler of app.py (an image
\* job with both delivery targets) and the poller's song command
Templates ==
  { [prompt |-> "a cat", input_image_url |-> "https://h/a.png",
     telegram_chat_id |-> "42", webhook_url |-> "http://cb",
     params |-> [workflow_type |-> None]],
    [prompt |-> "a song", input_image_url |-> None,
     telegram_chat_id |-> "42", webhook_url |-> None,
     params |-> [workflow_type |-> "song"]] }

\* ------------------------------------------------------------ processes
ThreadProc(t) == <<"thread", t>>
CancelProc(c) == <<"cancel", c>>
CreateProc(j) == <<"create", j>>
RestartProc(r) == <<"restart", r>>
RestartReqs == 1..(MaxWorkers - 1)
Procs ==
  {ThreadProc(t) : t \in Threads} \cup {CancelProc(c) : c \in CancelReqs}
  \cup {CreateProc(j) : j \in Jobs} \cup {RestartProc(r) : r \in RestartReqs}

VARIABLES
  meta,        \* meta[j]: the dict last written completely to j's meta.json
  torn,        \* torn[j]: meta.json was opened for writing and is empty
  queue,       \* JobQueue._queue: the Job objects waiting
  pc,          \* pc[p]: where process p is
  frame,       \* frame[p]: the JobStore call p is in (id, job, return points)
  loc,         \* loc[p]: the local variables of process p
  worker,      \* worker[w]: the fields of a JobWorker object
  job_worker,  \* app.py's global job_worker (0: None)
  dirs,        \* dirs[j]: the file names in j's input/ and output/
  now,         \* the wall clock
  log          \* observations: what was done for each job

vars == <<meta, torn, queue, pc, frame, loc, worker, job_worker, dirs, now, log>>

\* The status in the record of job id as last written in full; None when
\* there is no record
Persisted(id) == IF meta[id].id = 0 THEN None ELSE meta[id].status

\* A Job object that stands for "no job" in a local variable (id 0)
NoJob ==
  [id |-> 0, status |-> "QUEUED", created_at |-> 0, updated_at |-> 0,
   prompt |-> None, input_image_url |-> None, prompt_id |-> None,
   progress |-> 0, files |-> <<>>, error |-> None, telegram_chat_id |-> None,
   webhook_url |-> None, params |-> [workflow_type |-> None]]

\* meta[j] when j has no meta.json: the dict of no job
NoFile == to_dict(NoJob)

NoFrame == [id |-> 0, patch |-> <<>>, job |-> NoJob, ret |-> "", exc |-> ""]

Terminal == {"COMPLETED", "FAILED", "TIMED_OUT", "CANCELED"}

\* Observed for job id: the backend calls made and what was found
Observe(id, called, found) ==
  log' = [log EXCEPT !.calls[id] = @ \cup called,
                     !.clients[id] =
                       IF called = {} THEN @
                       ELSE @ \cup {worker[loc[q].w].comfy_client :
                                      q \in {r \in DOMAIN pc :
                                               /\ r[1] = "thread"
                                               /\ loc[r].job.id = id}},
                     !.submits[id] = IF "submit" \in called THEN @ + 1 ELSE @,
                     !.seen[id] = @ \cup found]

\* A backend call made for job id
Called(id, what) == Observe(id, {what}, {})

\* ------------------------------------------------- jobs/store.py
\* JobStore.exists: meta.json is there (created by open(.., 'w') at the latest)
exists(id) == meta[id] # NoFile \/ torn[id]

\* The loop of JobStore.update: setattr for the keys that are attributes.
\* A key that names a method becomes an attribute of the object and hides
\* the method
ApplyPatch(job, patch) ==
  [f \in DOMAIN job \cup {k \in DOMAIN patch : hasattr(k)} |->
     IF f \in DOMAIN patch /\ hasattr(f) THEN patch[f] ELSE job[f]]

\* A process goes to pc `to`
Goto(p, to) == pc' = [pc EXCEPT ![p] = to]

\* A process enters store.update(id, **patch); it resumes at ret, or at exc
\* if the call raises
CallUpdate(p, id, patch, ret, exc) ==
  /\ frame' = [frame EXCEPT ![p] =
                 [id |-> id, patch |-> patch, job |-> NoJob, ret |-> ret,
                  exc |-> exc]]
  /\ Goto(p, "update_load")

\* An update that makes the record when the file is missing
UpdateLoadOrCreate(p) ==
  /\ pc[p] = "update_load"
  /\ LET id == frame[p].id IN
       IF torn[id]
       THEN /\ loc' = [loc EXCEPT ![p].e = "Expecting value"]
            /\ Goto(p, frame[p].exc)
            /\ frame' = [frame EXCEPT ![p] = NoFrame]
       ELSE /\ frame' = [frame EXCEPT ![p].job =
                 [ApplyPatch([from_dict(meta[id]) EXCEPT !.id = id],
                             frame[p].patch)
                    EXCEPT !.updated_at = now]]
            /\ Goto(p, "save_open")
            /\ UNCHANGED loc
  /\ UNCHANGED <<meta, torn, queue, worker, job_worker, dirs, now, log>>

\* JobStore.update, up to save: load, patch, stamp.  json.load of a file that
\* another thread has open for writing raises; a missing file returns None.
UpdateLoad(p) ==
  /\ pc[p] = "update_load"
  /\ LET id == frame[p].id IN
       IF torn[id]
       THEN /\ loc' = [loc EXCEPT ![p].e = "Expecting value"]
            /\ Goto(p, frame[p].exc)
            /\ frame' = [frame EXCEPT ![p] = NoFrame]
       ELSE IF meta[id] = NoFile
       THEN /\ Goto(p, frame[p].ret)
            /\ frame' = [frame EXCEPT ![p] = NoFrame]
            /\ UNCHANGED loc
       ELSE /\ frame' = [frame EXCEPT ![p].job =
                 [ApplyPatch(from_dict(meta[id]), frame[p].patch)
                    EXCEPT !.updated_at = now]]
            /\ Goto(p, "save_open")
            /\ UNCHANGED loc
  /\ UNCHANGED <<meta, torn, queue, worker, job_worker, dirs, now, log>>

\* JobStore.save, open(meta_path, 'w'): the file exists and is empty
SaveOpen(p) ==
  /\ pc[p] = "save_open"
  /\ torn' = [torn EXCEPT ![frame[p].id] = TRUE]
  /\ Goto(p, "save_write")
  /\ UNCHANGED <<meta, queue, frame, loc, worker, job_worker, dirs, now, log>>

\* Where the pipeline of job id is when a cancel request's save lands: in the
\* history query that follows a cancel check, or between the reply with the
\* outputs and the update to COMPLETED
Stage(id) ==
  LET holders == {q \in DOMAIN pc : q[1] = "thread" /\ loc[q].job.id = id}
      wrote(v) == \E i \in 1..Len(log.checkpoints[id]) :
                    log.checkpoints[id][i] = v
      writes(q, v) == /\ pc[q] \in {"update_load", "save_open", "save_write"}
                      /\ "progress" \in DOMAIN frame[q].patch
                      /\ frame[q].patch.progress = v IN
  (IF \E q \in holders : pc[q] = "poll_history"
   THEN {"canceled during query"} ELSE {})
  \cup (IF \E q \in holders : /\ wrote(80) \/ writes(q, 80)
                             /\ ~wrote(100)
        THEN {"canceled after last check"} ELSE {})

\* JobStore.save, json.dump(job.to_dict(), f) and close: the whole dict is in
\* the file.  When to_dict of the object is no longer the method the call
\* raises, and the file stays as open left it
SaveWrite(p) ==
  /\ pc[p] = "save_write"
  /\ IF "to_dict" \in DOMAIN frame[p].job
     THEN /\ loc' = [loc EXCEPT ![p].e = "object is not callable"]
          /\ Goto(p, frame[p].exc)
          /\ UNCHANGED <<meta, torn>>
     ELSE /\ meta' = [meta EXCEPT ![frame[p].id] = to_dict(frame[p].job)]
          /\ torn' = [torn EXCEPT ![frame[p].id] = FALSE]
          /\ Goto(p, frame[p].ret)
          /\ UNCHANGED loc
  /\ log' = IF "to_dict" \in DOMAIN frame[p].job THEN log
            ELSE IF p[1] = "thread" /\ "progress" \in DOMAIN frame[p].patch
            THEN [log EXCEPT !.checkpoints[frame[p].id] =
                               Append(@, frame[p].patch.progress)]
            ELSE IF p[1] = "cancel"
            THEN [log EXCEPT !.seen[frame[p].id] = @ \cup Stage(frame[p].id)]
            ELSE log
  /\ frame' = [frame EXCEPT ![p] = NoFrame]
  /\ UNCHANGED <<queue, worker, job_worker, dirs, now>>

\* JobStore.load of a file that nobody has open: None (the job of id 0) when
\* there is no meta.json, else from_dict of the dict in the file.  json.dump
\* and json.load of a dict of strings, ints, None, a list of strings and a
\* dict with string keys give that dict back
load(id) == IF meta[id] = NoFile THEN NoJob ELSE from_dict(meta[id])

\* A caller's job = store.load(id) after its store.save(job) returned
Load(p) ==
  /\ pc[p] = "load"
  /\ ~torn[loc[p].job.id]
  /\ loc' = [loc EXCEPT ![p].loaded = load(loc[p].job.id)]
  /\ Goto(p, "loaded")
  /\ UNCHANGED <<meta, torn, queue, frame, worker, job_worker, dirs, now, log>>

\* ------------------------------------------------- jobs/queue.py
\* JobQueue.enqueue: queue.Queue.put, under the queue's mutex
enqueue(q, job) == Append(q, job)

\* JobQueue.dequeue on a queue that holds an item: the oldest one
dequeue_newest(q) ==
  IF q = <<>> THEN [job |-> NoJob, rest |-> q]
  ELSE [job |-> q[Len(q)], rest |-> SubSeq(q, 1, Len(q) - 1)]

\* A dequeue that gives the oldest job and leaves it in the queue
dequeue_peek(q) ==
  IF q = <<>> THEN [job |-> NoJob, rest |-> q]
  ELSE [job |-> Head(q), rest |-> q]

dequeue(q) ==
  IF q = <<>> THEN [job |-> NoJob, rest |-> q]
  ELSE [job |-> Head(q), rest |-> Tail(q)]

\* ------------------------------------------------- app.py: create
\* A producer that hands the job to the queue first and saves it afterwards
CreateJobEnqueueFirst(j, tmpl) ==
  LET p == CreateProc(j) IN
  /\ pc[p] = "idle"
  /\ IF j = 1 THEN TRUE ELSE pc[CreateProc(j - 1)] # "idle"
  /\ loc' = [loc EXCEPT ![p].job = NewJob(j, now, tmpl)]
  /\ queue' = enqueue(queue, NewJob(j, now, tmpl))
  /\ log' = [log EXCEPT !.enq = Append(@, j)]
  /\ frame' = [frame EXCEPT ![p] =
                 [NoFrame EXCEPT !.id = j, !.job = NewJob(j, now, tmpl),
                                 !.ret = "done", !.exc = "done"]]
  /\ Goto(p, "save_open")
  /\ UNCHANGED <<meta, torn, worker, job_worker, dirs, now>>

\* create_image_to_video_job up to job_store.save(job).  uuid4 ids are
\* handed out in the order 1, 2, ..
CreateJob(j, tmpl) ==
  LET p == CreateProc(j) IN
  /\ pc[p] = "idle"
  /\ IF j = 1 THEN TRUE ELSE pc[CreateProc(j - 1)] # "idle"
  /\ loc' = [loc EXCEPT ![p].job = NewJob(j, now, tmpl)]
  /\ frame' = [frame EXCEPT ![p] =
                 [NoFrame EXCEPT !.id = j, !.job = NewJob(j, now, tmpl),
                                 !.ret = "enqueue", !.exc = "done"]]
  /\ Goto(p, "save_open")
  /\ UNCHANGED <<meta, torn, queue, worker, job_worker, dirs, now, log>>

\* create_image_to_video_job: job_queue.enqueue(job)
EnqueueJob(j) ==
  LET p == CreateProc(j) IN
  /\ pc[p] = "enqueue"
  /\ queue' = enqueue(queue, loc[p].job)
  /\ log' = [log EXCEPT !.enq = Append(@, j)]
  /\ Goto(p, "done")
  /\ UNCHANGED <<meta, torn, frame, loc, worker, job_worker, dirs, now>>

\* ------------------------------------------------- app.py: cancel
\* cancel_job: load, the 404 and 400 answers, else into store.update.  A
\* client has the id of a job from the answer of the create request; any
\* other id it sends is the id of no job
CancelJob(c, id) ==
  LET p == CancelProc(c)
      sent == [loc[p] EXCEPT !.id = id, !.at_request = Persisted(id)] IN
  /\ pc[p] = "idle"
  /\ pc[CreateProc(id)] \in {"idle", "done"}
  /\ Observe(id, {}, IF torn[id] \/ meta[id] = NoFile
                          \/ from_dict(meta[id]).status \in Terminal
                     THEN {} ELSE {"canceled"})
  /\ IF torn[id]
     THEN /\ loc' = [loc EXCEPT ![p] = [sent EXCEPT !.e = "Expecting value"]]
          /\ Goto(p, "done")
          /\ UNCHANGED frame
     ELSE IF meta[id] = NoFile
     THEN /\ loc' = [loc EXCEPT ![p] = [sent EXCEPT !.result = "Job not found"]]
          /\ Goto(p, "done")
          /\ UNCHANGED frame
     ELSE IF from_dict(meta[id]).status \in Terminal
     THEN /\ loc' = [loc EXCEPT ![p] =
                       [sent EXCEPT !.result = "Job already finished"]]
          /\ Goto(p, "done")
          /\ UNCHANGED frame
     ELSE /\ loc' = [loc EXCEPT ![p] = sent]
          /\ CallUpdate(p, id, [status |-> "CANCELED"], "cancel_return",
                        "done")
  /\ UNCHANGED <<meta, torn, queue, worker, job_worker, dirs, now>>

\* cancel_job: return jsonify({"success": True})
CancelReturn(c) ==
  LET p == CancelProc(c) IN
  /\ pc[p] = "cancel_return"
  /\ loc' = [loc EXCEPT ![p].result = "success"]
  /\ Goto(p, "done")
  /\ UNCHANGED <<meta, torn, queue, frame, worker, job_worker, dirs, now, log>>

\* ------------------------------------------------- jobs/worker.py
NoStats == [success |-> 0, failed |-> 0, timed_out |-> 0, canceled |-> 0]

\* self.stats[k] += 1 of worker w, on behalf of job id
Count(w, k, id) ==
  /\ worker' = [worker EXCEPT ![w].stats[k] = @ + 1]
  /\ log' = [log EXCEPT !.tally[id][k] = @ + 1]

\* The locals of a loop thread that runs no job
IdleThread(w) ==
  [w |-> w, job |-> NoJob, elapsed |-> 0, prompt_id |-> None,
   outputs |-> <<>>, output_files |-> <<>>, e |-> None]

\* time.time() - start_time d poll intervals later, counted up to the first
\* value past the timeout
Later(n, d) == IF n + d > TimeoutTicks THEN TimeoutTicks + 1 ELSE n + d

\* A step raises e inside the try of _process_job
Raise(p, e, to) ==
  /\ loc' = [loc EXCEPT ![p].e = e]
  /\ Goto(p, to)
  /\ UNCHANGED frame

\* _worker_loop: while self.running
\* A loop that does not look at the flag
WorkerLoopForever(t) ==
  LET p == ThreadProc(t) IN
  /\ pc[p] = "loop"
  /\ Goto(p, "dequeue")
  /\ UNCHANGED <<meta, torn, queue, frame, loc, worker, job_worker, dirs, now,
                 log>>

WorkerLoop(t) ==
  LET p == ThreadProc(t) IN
  /\ pc[p] = "loop"
  /\ Goto(p, IF worker[loc[p].w].running THEN "dequeue" ELSE "exit")
  /\ UNCHANGED <<meta, torn, queue, frame, loc, worker, job_worker, dirs, now,
                 log>>

\* _worker_loop: job = self.queue.dequeue(timeout=1.0); None: continue
Dequeue(t) ==
  LET p == ThreadProc(t) IN
  /\ pc[p] = "dequeue"
  /\ IF dequeue(queue).job = NoJob
     THEN /\ Goto(p, "loop")
          /\ UNCHANGED <<queue, loc, log>>
     ELSE /\ queue' = dequeue(queue).rest
          /\ loc' = [loc EXCEPT ![p].job = dequeue(queue).job, ![p].elapsed = 0]
          /\ log' = [log EXCEPT
                      !.deq = Append(@, dequeue(queue).job.id),
                      !.at_dequeue[dequeue(queue).job.id] =
                        IF torn[dequeue(queue).job.id] THEN "torn"
                        ELSE meta[dequeue(queue).job.id].status]
          /\ Goto(p, "admission")
  /\ UNCHANGED <<meta, torn, frame, worker, job_worker, dirs, now>>

\* _process_job: the check of job.status, then the update to RUNNING
Admission(t) ==
  LET p == ThreadProc(t)
      job == loc[p].job IN
  /\ pc[p] = "admission"
  /\ IF job.status = "CANCELED"
     THEN /\ Count(loc[p].w, "canceled", job.id)
          /\ loc' = [loc EXCEPT ![p] = IdleThread(loc[p].w)]
          /\ Goto(p, "loop")
          /\ UNCHANGED frame
     ELSE /\ CallUpdate(p, job.id, [status |-> "RUNNING", progress |-> 10],
                        "branch", "loop_except")
          /\ UNCHANGED <<loc, worker, log>>
  /\ UNCHANGED <<meta, torn, queue, job_worker, dirs, now>>

\* params.get("workflow_type", "im2vid")
WorkflowType(job) ==
  IF job.params.workflow_type = None THEN "im2vid"
  ELSE job.params.workflow_type

\* A song branch that goes through the upload of the image branch
BuildSongUpload(t, ok) ==
  LET p == ThreadProc(t) IN
  /\ pc[p] = "branch"
  /\ WorkflowType(loc[p].job) = "song"
  /\ IF ok
     THEN /\ CallUpdate(p, loc[p].job.id, [progress |-> 40], "upload", "except")
          /\ UNCHANGED loc
     ELSE Raise(p, "No such file", "except")
  /\ UNCHANGED <<meta, torn, queue, worker, job_worker, dirs, now, log>>

\* _process_job, song branch: load_base and apply_song_overrides, progress 40
BuildSong(t, ok) ==
  LET p == ThreadProc(t) IN
  /\ pc[p] = "branch"
  /\ WorkflowType(loc[p].job) = "song"
  /\ IF ok
     THEN /\ CallUpdate(p, loc[p].job.id, [progress |-> 40], "submit", "except")
          /\ UNCHANGED loc
     ELSE Raise(p, "No such file", "except")
  /\ UNCHANGED <<meta, torn, queue, worker, job_worker, dirs, now, log>>

\* job.input_image_url.startswith("telegram://")
IsTelegramUrl(url) == url = "telegram://f"

\* A _stage_input that fetches the url whatever is in input/
FetchesAlways(job, input) == ~IsTelegramUrl(job.input_image_url)

\* _stage_input: it calls requests.get(job.input_image_url)
Fetches(job, input) ==
  ~IsTelegramUrl(job.input_image_url) /\ "input.png" \notin input

\* _stage_input: what is in input/ afterwards, or "raise"
StagedInput(job, input, ok) ==
  IF IsTelegramUrl(job.input_image_url)
  THEN IF input # {} THEN input ELSE {"raise"}
  ELSE IF ~Fetches(job, input) THEN input
  ELSE IF ok THEN input \cup {"input.png"} ELSE {"raise"}

\* _process_job, image branch step 1: _stage_input, progress 20.  A fetch
\* that fails raises before input.png is opened (requests.get,
\* raise_for_status) or while it is written (iter_content): then a part of
\* the file stays
StageInput(t, ok) ==
  LET p == ThreadProc(t)
      id == loc[p].job.id
      staged == StagedInput(loc[p].job, dirs[id].input, ok) IN
  /\ pc[p] = "branch"
  /\ WorkflowType(loc[p].job) # "song"
  /\ log' = [log EXCEPT
               !.fetches[id] =
                 IF Fetches(loc[p].job, dirs[id].input) THEN @ + 1 ELSE @,
               !.staged[id] = IF staged # {"raise"} THEN @ + 1 ELSE @]
  /\ IF staged # {"raise"}
     THEN /\ dirs' = [dirs EXCEPT ![id].input = staged]
          /\ CallUpdate(p, id, [progress |-> 20], "upload", "except")
          /\ UNCHANGED loc
     ELSE /\ Raise(p, "stage failed", "except")
          /\ \/ UNCHANGED dirs
             \/ /\ Fetches(loc[p].job, dirs[id].input)
                /\ dirs' = [dirs EXCEPT ![id].input = @ \cup {"input.png"}]
  /\ UNCHANGED <<meta, torn, queue, worker, job_worker, now>>

\* _stage_input(job) is run again for the job the thread holds
StageAgain(t) ==
  LET p == ThreadProc(t) IN
  /\ pc[p] \in {"upload", "except"}
  /\ log.staged[loc[p].job.id] < MaxStagings
  /\ log.fetches[loc[p].job.id] < MaxStagings
  /\ Goto(p, "branch")
  /\ UNCHANGED <<meta, torn, queue, frame, loc, worker, job_worker, dirs, now,
                 log>>

\* _process_job step 2: comfy_client.upload_image, progress 30
Upload(t, ok) ==
  LET p == ThreadProc(t) IN
  /\ pc[p] = "upload"
  /\ Called(loc[p].job.id, "upload")
  /\ IF ok
     THEN /\ CallUpdate(p, loc[p].job.id, [progress |-> 30], "build", "except")
          /\ UNCHANGED loc
     ELSE Raise(p, "upload failed", "except")
  /\ UNCHANGED <<meta, torn, queue, worker, job_worker, dirs, now>>

\* _process_job step 3: load_base and apply_overrides, progress 40
Build(t, ok) ==
  LET p == ThreadProc(t) IN
  /\ pc[p] = "build"
  /\ IF ok
     THEN /\ CallUpdate(p, loc[p].job.id, [progress |-> 40], "submit", "except")
          /\ UNCHANGED loc
     ELSE Raise(p, "No such file", "except")
  /\ UNCHANGED <<meta, torn, queue, worker, job_worker, dirs, now, log>>

\* The prompt id the backend gives the submission of job id
PromptIds == <<"prompt-1", "prompt-2", "prompt-3", "prompt-4">>

\* _process_job step 4: comfy_client.queue_prompt, prompt_id and progress 50
Submit(t, ok) ==
  LET p == ThreadProc(t)
      id == loc[p].job.id IN
  /\ pc[p] = "submit"
  /\ Observe(id, {"submit"}, IF ok THEN {} ELSE {"submit failed"})
  /\ IF ok
     THEN /\ loc' = [loc EXCEPT ![p].prompt_id = PromptIds[id]]
          /\ CallUpdate(p, id, [prompt_id |-> PromptIds[id], progress |-> 50],
                        "poll", "except")
     ELSE Raise(p, "submit failed", "except")
  /\ UNCHANGED <<meta, torn, queue, worker, job_worker, dirs, now>>

\* ------------------------------------------- the backend's history
\* outputs of a history entry: nodes in the order reported, each node its
\* (type, file descriptors) pairs in the order reported; a descriptor is its
\* filename, None when it has none
Outputs1 == << << <<"videos", <<"a.mp4">> >>, <<"audio", <<"b.mp3">> >> >> >>
Outputs2 == << << <<"audio", <<"b.mp3">> >>, <<"images", <<None, "c.png">> >> >> >>

\* What comfy_client.get_history(prompt_id) can answer: it raises, or the
\* prompt is absent from the history, or present with status.status_str,
\* status.messages (has_messages: the key is there) and outputs
Reply(raises, present, status_str, has_messages, messages, outputs) ==
  [raises |-> raises, present |-> present, status_str |-> status_str,
   has_messages |-> has_messages, messages |-> messages, outputs |-> outputs]

HistoryReplies ==
  { Reply(TRUE, FALSE, None, FALSE, <<>>, <<>>),
    Reply(FALSE, FALSE, None, FALSE, <<>>, <<>>),
    Reply(FALSE, TRUE, "success", FALSE, <<>>, <<>>),
    Reply(FALSE, TRUE, "error", TRUE, <<"boom">>, <<>>),
    Reply(FALSE, TRUE, "error", TRUE, <<"boom">>, Outputs1),
    Reply(FALSE, TRUE, "error", FALSE, <<>>, <<>>),
    Reply(FALSE, TRUE, "error", TRUE, <<>>, <<>>),
    Reply(FALSE, TRUE, "success", TRUE, <<"done">>, Outputs1),
    Reply(FALSE, TRUE, "success", FALSE, <<>>, Outputs2) }

\* _poll_for_outputs: what one iteration does with the reply
PollVerdictNoCatch(h) ==
  IF h.raises THEN "error"
  ELSE IF ~h.present THEN "sleep"
  ELSE IF h.status_str = "error" THEN "error"
  ELSE IF h.outputs # <<>> THEN "outputs"
  ELSE "sleep"

\* The outputs check ahead of the error check
PollVerdictOutputsFirst(h) ==
  IF h.raises THEN "sleep"
  ELSE IF ~h.present THEN "sleep"
  ELSE IF h.outputs # <<>> THEN "outputs"
  ELSE IF h.status_str = "error" THEN "error"
  ELSE "sleep"

PollVerdict(h) ==
  IF h.raises THEN "sleep"
  ELSE IF ~h.present THEN "sleep"
  ELSE IF h.status_str = "error" THEN "error"
  ELSE IF h.outputs # <<>> THEN "outputs"
  ELSE "sleep"

\* f"ComfyUI error: {error_msg}"
ComfyError(error_msg) ==
  CASE error_msg = "boom" -> "ComfyUI error: boom"
    [] error_msg = "Unknown error" -> "ComfyUI error: Unknown error"
    [] OTHER -> "ComfyUI error"

\* _poll_for_outputs: the text of the exception an error reply is raised
\* with; messages[0] of an empty list is an IndexError
ErrorText(h) ==
  IF h.raises THEN "history failed"
  ELSE IF ~h.has_messages THEN ComfyError("Unknown error")
  ELSE IF h.messages = <<>> THEN "list index out of range"
  ELSE ComfyError(h.messages[1])

\* What a reply shows of the backend: that the query failed, or the verdict
\* and the first message of an error
Shown(h) ==
  IF h.raises THEN {"history raised"}
  ELSE IF ~h.present THEN {}
  ELSE IF h.status_str = "error"
  THEN {"error"} \cup (IF h.messages # <<>> THEN {h.messages[1]} ELSE {})
  ELSE IF h.outputs # <<>> THEN {"outputs"}
  ELSE {}

\* The timeout check with >= in place of >
PollTimeoutAtLimit(t, d) ==
  LET p == ThreadProc(t)
      elapsed == Later(loc[p].elapsed, d) IN
  /\ pc[p] = "poll"
  /\ IF elapsed >= TimeoutTicks
     THEN /\ loc' = [loc EXCEPT ![p].elapsed = elapsed, ![p].e = "Job timed out"]
          /\ Goto(p, "except_timeout")
     ELSE /\ loc' = [loc EXCEPT ![p].elapsed = elapsed]
          /\ Goto(p, "poll_load")
  /\ UNCHANGED <<meta, torn, queue, frame, worker, job_worker, dirs, now, log>>

\* _poll_for_outputs: the timeout check at the top of an iteration; the
\* pipeline took d more poll intervals to get here than the sleeps add up to
PollTimeout(t, d) ==
  LET p == ThreadProc(t)
      elapsed == Later(loc[p].elapsed, d) IN
  /\ pc[p] = "poll"
  /\ IF elapsed > TimeoutTicks
     THEN /\ loc' = [loc EXCEPT ![p].elapsed = elapsed, ![p].e = "Job timed out"]
          /\ Goto(p, "except_timeout")
     ELSE /\ loc' = [loc EXCEPT ![p].elapsed = elapsed]
          /\ Goto(p, "poll_load")
  /\ UNCHANGED <<meta, torn, queue, frame, worker, job_worker, dirs, now, log>>

\* _poll_for_outputs: current_job = self.store.load(job.id), the cancel check
PollLoad(t) ==
  LET p == ThreadProc(t)
      id == loc[p].job.id IN
  /\ pc[p] = "poll_load"
  /\ IF torn[id]
     THEN /\ Raise(p, "Expecting value", "except")
          /\ UNCHANGED log
     ELSE IF meta[id] # NoFile /\ from_dict(meta[id]).status = "CANCELED"
     THEN /\ Raise(p, "Job was canceled", "except")
          /\ Observe(id, {}, {"poll found canceled"})
     ELSE /\ Goto(p, "poll_history")
          /\ UNCHANGED <<frame, loc, log>>
  /\ UNCHANGED <<meta, torn, queue, worker, job_worker, dirs, now>>

\* _poll_for_outputs: get_history and the checks on it; progress 80 on return
PollHistory(t, h) ==
  LET p == ThreadProc(t)
      id == loc[p].job.id IN
  /\ pc[p] = "poll_history"
  /\ Observe(id, {"history"}, Shown(h))
  /\ CASE PollVerdict(h) = "sleep" ->
            /\ Goto(p, "poll_sleep")
            /\ UNCHANGED <<frame, loc>>
       [] PollVerdict(h) = "error" -> Raise(p, ErrorText(h), "except")
       [] PollVerdict(h) = "outputs" ->
            /\ loc' = [loc EXCEPT ![p].outputs = h.outputs]
            /\ CallUpdate(p, id, [progress |-> 80], "download", "except")
  /\ UNCHANGED <<meta, torn, queue, worker, job_worker, dirs, now>>

\* _poll_for_outputs: time.sleep(poll_interval)
PollSleepNoTime(t) ==
  LET p == ThreadProc(t) IN
  /\ pc[p] = "poll_sleep"
  /\ Goto(p, "poll")
  /\ UNCHANGED <<meta, torn, queue, frame, loc, worker, job_worker, dirs, now,
                 log>>

PollSleep(t) ==
  LET p == ThreadProc(t) IN
  /\ pc[p] = "poll_sleep"
  /\ loc' = [loc EXCEPT ![p].elapsed = Later(@, 1)]
  /\ Goto(p, "poll")
  /\ UNCHANGED <<meta, torn, queue, frame, worker, job_worker, dirs, now, log>>

\* _download_outputs: the filenames of one node, by type in the order
\* videos, gifs, images, audio
OutputTypes == <<"videos", "gifs", "images", "audio">>

RECURSIVE NamedFiles(_)
NamedFiles(infos) ==
  IF infos = <<>> THEN <<>>
  ELSE (IF Head(infos) # None THEN <<Head(infos)>> ELSE <<>>)
       \o NamedFiles(Tail(infos))

RECURSIVE NodeFiles(_, _)
NodeFiles(node, k) ==
  IF k > Len(OutputTypes) THEN <<>>
  ELSE LET here == {i \in 1..Len(node) : node[i][1] = OutputTypes[k]} IN
       (IF here = {} THEN <<>>
        ELSE NamedFiles(node[CHOOSE i \in here : TRUE][2]))
       \o NodeFiles(node, k + 1)

\* _download_outputs: the files it downloads, in order
RECURSIVE DownloadList(_)
DownloadList(outputs) ==
  IF outputs = <<>> THEN <<>>
  ELSE NodeFiles(Head(outputs), 1) \o DownloadList(Tail(outputs))

\* The most files a reply names
MaxFiles == Len(DownloadList(Outputs1))

\* _process_job step 6: _download_outputs, of which the first n downloads
\* succeed (n = MaxFiles: all); progress 90 when all did
Download(t, n) ==
  LET p == ThreadProc(t)
      id == loc[p].job.id
      all == DownloadList(loc[p].outputs)
      k == IF n < Len(all) THEN n ELSE Len(all) IN
  /\ pc[p] = "download"
  /\ dirs' = [dirs EXCEPT ![id].output = @ \cup {all[i] : i \in 1..k}]
  /\ Observe(id, IF all = <<>> THEN {} ELSE {"download"},
             IF k = Len(all) THEN {} ELSE {"download failed"})
  /\ IF k = Len(all)
     THEN /\ loc' = [loc EXCEPT ![p].output_files = all]
          /\ CallUpdate(p, id, [progress |-> 90], "complete", "except")
     ELSE Raise(p, "download failed", "except")
  /\ UNCHANGED <<meta, torn, queue, worker, job_worker, now>>

\* The update to COMPLETED without the files
CompleteNoFiles(t) ==
  LET p == ThreadProc(t) IN
  /\ pc[p] = "complete"
  /\ CallUpdate(p, loc[p].job.id,
                [status |-> "COMPLETED", progress |-> 100],
                "count_success", "except")
  /\ UNCHANGED <<meta, torn, queue, loc, worker, job_worker, dirs, now, log>>

\* _process_job step 7: the update to COMPLETED
Complete(t) ==
  LET p == ThreadProc(t) IN
  /\ pc[p] = "complete"
  /\ CallUpdate(p, loc[p].job.id,
                [status |-> "COMPLETED", progress |-> 100,
                 files |-> loc[p].output_files],
                "count_success", "except")
  /\ UNCHANGED <<meta, torn, queue, loc, worker, job_worker, dirs, now, log>>

\* _process_job step 7: self.stats["success"] += 1
CountSuccess(t) ==
  LET p == ThreadProc(t) IN
  /\ pc[p] = "count_success"
  /\ Count(loc[p].w, "success", loc[p].job.id)
  /\ Goto(p, "telegram")
  /\ UNCHANGED <<meta, torn, queue, frame, loc, job_worker, dirs, now>>

\* What a delivery step sends: the record it loads, nothing when the load
\* raises or finds no file, or when the send itself fails (ok = FALSE); the
\* exception of either is caught and printed
Delivered(id, channel, ok) ==
  IF torn[id] \/ meta[id] = NoFile \/ ~ok THEN <<>>
  ELSE << <<channel, meta[id].status>> >>

\* A delivery step for job id on a channel: what it sends, and that it failed
Deliver(id, channel, ok) ==
  log' = [log EXCEPT
            !.sent[id] = @ \o Delivered(id, channel, ok),
            !.seen[id] = @ \cup {channel}
                           \cup (IF ok THEN {} ELSE {"delivery failed"})]

\* _process_job step 8: the notification, when the job has a chat id
Telegram(t, ok) ==
  LET p == ThreadProc(t)
      job == loc[p].job IN
  /\ pc[p] = "telegram"
  /\ IF job.telegram_chat_id # None
     THEN Deliver(job.id, "telegram", ok)
     ELSE UNCHANGED log
  /\ Goto(p, "webhook")
  /\ UNCHANGED <<meta, torn, queue, frame, loc, worker, job_worker, dirs, now>>

\* _process_job step 9: _call_webhook, when the job has a webhook url; then
\* back to the loop
Webhook(t, ok) ==
  LET p == ThreadProc(t)
      job == loc[p].job IN
  /\ pc[p] = "webhook"
  /\ IF job.webhook_url # None
     THEN Deliver(job.id, "webhook", ok)
     ELSE UNCHANGED log
  /\ loc' = [loc EXCEPT ![p] = IdleThread(loc[p].w)]
  /\ Goto(p, "loop")
  /\ UNCHANGED <<meta, torn, queue, frame, worker, job_worker, dirs, now>>

\* _process_job: except TimeoutError
ExceptTimeout(t) ==
  LET p == ThreadProc(t) IN
  /\ pc[p] = "except_timeout"
  /\ CallUpdate(p, loc[p].job.id,
                [status |-> "TIMED_OUT", error |-> loc[p].e],
                "count_timed_out", "loop_except")
  /\ UNCHANGED <<meta, torn, queue, loc, worker, job_worker, dirs, now, log>>

\* _process_job: self.stats["timed_out"] += 1, and back to the loop
CountTimedOut(t) ==
  LET p == ThreadProc(t) IN
  /\ pc[p] = "count_timed_out"
  /\ Count(loc[p].w, "timed_out", loc[p].job.id)
  /\ loc' = [loc EXCEPT ![p] = IdleThread(loc[p].w)]
  /\ Goto(p, "loop")
  /\ UNCHANGED <<meta, torn, queue, frame, job_worker, dirs, now>>

\* _process_job: except Exception
ExceptException(t) ==
  LET p == ThreadProc(t) IN
  /\ pc[p] = "except"
  /\ CallUpdate(p, loc[p].job.id,
                [status |-> "FAILED", error |-> loc[p].e],
                "count_failed", "loop_except")
  /\ UNCHANGED <<meta, torn, queue, loc, worker, job_worker, dirs, now, log>>

\* _worker_loop: except Exception around _process_job
LoopExcept(t) ==
  LET p == ThreadProc(t) IN
  /\ pc[p] = "loop_except"
  /\ CallUpdate(p, loc[p].job.id,
                [status |-> "FAILED", error |-> "Unexpected error"],
                "count_failed", "crashed")
  /\ UNCHANGED <<meta, torn, queue, loc, worker, job_worker, dirs, now, log>>

\* self.stats["failed"] += 1 (of _process_job and of _worker_loop), and back
\* to the loop
CountFailed(t) ==
  LET p == ThreadProc(t) IN
  /\ pc[p] = "count_failed"
  /\ Count(loc[p].w, "failed", loc[p].job.id)
  /\ loc' = [loc EXCEPT ![p] = IdleThread(loc[p].w)]
  /\ Goto(p, "loop")
  /\ UNCHANGED <<meta, torn, queue, frame, job_worker, dirs, now>>

\* ------------------------------------------- worker lifecycle
NoWorker == [created |-> FALSE, running |-> FALSE, thread |-> 0,
             comfy_client |-> 0,
             stats |-> NoStats]

\* JobWorker.__init__ and start() on the new object: running, one new thread
\* at the top of _worker_loop
StartedWorker(t) ==
  [created |-> TRUE, running |-> TRUE, thread |-> t, comfy_client |-> 1,
   stats |-> NoStats]

\* save workflow handler: job_worker.stop() up to the join
RestartStop(r) ==
  LET p == RestartProc(r) IN
  /\ pc[p] = "idle"
  /\ IF job_worker # 0
     THEN /\ worker' = [worker EXCEPT ![job_worker].running = FALSE]
          /\ loc' = [loc EXCEPT ![p].w = job_worker]
          /\ Goto(p, "join")
     ELSE /\ Goto(p, "done")
          /\ UNCHANGED <<worker, loc>>
  /\ UNCHANGED <<meta, torn, queue, frame, job_worker, dirs, now, log>>

\* JobWorker.stop: self.thread.join(timeout=5) returns, the thread ended
\* or not
RestartJoin(r) ==
  LET p == RestartProc(r) IN
  /\ pc[p] = "join"
  /\ Goto(p, "init_worker")
  /\ UNCHANGED <<meta, torn, queue, frame, loc, worker, job_worker, dirs, now,
                 log>>

\* init_worker: a new JobWorker becomes job_worker and is started
InitWorker(r, w, t) ==
  LET p == RestartProc(r) IN
  /\ pc[p] = "init_worker"
  /\ ~worker[w].created /\ \A v \in 1..(w - 1) : worker[v].created
  /\ pc[ThreadProc(t)] = "unborn"
  /\ \A u \in 1..(t - 1) : pc[ThreadProc(u)] # "unborn"
  /\ worker' = [worker EXCEPT
                  ![w] = [StartedWorker(t) EXCEPT
                            !.comfy_client = worker[job_worker].comfy_client]]
  /\ job_worker' = w
  /\ loc' = [loc EXCEPT ![ThreadProc(t)] = IdleThread(w)]
  /\ pc' = [pc EXCEPT ![p] = "done", ![ThreadProc(t)] = "loop"]
  /\ UNCHANGED <<meta, torn, queue, frame, dirs, now, log>>

\* JobWorker.start called on worker w: nothing when it is running, else the
\* flag is set and a new thread t starts at the top of _worker_loop
Start(r, w, t) ==
  LET p == RestartProc(r) IN
  /\ pc[p] = "idle"
  /\ worker[w].created
  /\ IF worker[w].running
     THEN UNCHANGED <<worker, loc, pc>>
     ELSE /\ pc[ThreadProc(t)] = "unborn"
          /\ \A u \in 1..(t - 1) : pc[ThreadProc(u)] # "unborn"
          /\ worker' = [worker EXCEPT ![w].running = TRUE, ![w].thread = t]
          /\ loc' = [loc EXCEPT ![ThreadProc(t)] = IdleThread(w)]
          /\ pc' = [pc EXCEPT ![ThreadProc(t)] = "loop"]
  /\ UNCHANGED <<meta, torn, queue, frame, job_worker, dirs, now, log>>

\* JobWorker.stop called on worker w: the flag is cleared, then the join
Stop(r, w) ==
  LET p == RestartProc(r) IN
  /\ pc[p] = "idle"
  /\ worker[w].created
  /\ worker' = [worker EXCEPT ![w].running = FALSE]
  /\ loc' = [loc EXCEPT ![p].w = w]
  /\ log' = IF worker[w].running
            THEN [log EXCEPT !.deq_at_stop[w] = Len(log.deq)]
            ELSE log
  /\ Goto(p, "stop_join")
  /\ UNCHANGED <<meta, torn, queue, frame, job_worker, dirs, now>>

\* JobWorker.stop: self.thread.join(timeout=5) returns.  A thread that waits
\* in dequeue(timeout=1.0) sees the flag and ends within the 5 seconds; one
\* that is inside _process_job can take longer, and the join gives up
StopJoin(r) ==
  LET p == RestartProc(r)
      th == ThreadProc(worker[loc[p].w].thread) IN
  /\ pc[p] = "stop_join"
  /\ pc[th] \in {"exit", "crashed"} \/ loc[th].job.id # 0
  /\ Goto(p, "idle")
  /\ UNCHANGED <<meta, torn, queue, frame, loc, worker, job_worker, dirs, now,
                 log>>

\* save_comfyui_config: comfy_client = ComfyUIClient(url), a new client
\* object, also assigned to job_worker.comfy_client.  The global comfy_client
\* is the client of the worker that job_worker names
save_comfyui_config ==
  /\ worker[job_worker].comfy_client < MaxClients
  /\ worker' = [worker EXCEPT ![job_worker].comfy_client = @ + 1]
  /\ UNCHANGED <<meta, torn, queue, pc, frame, loc, job_worker, dirs, now, log>>

\* The wall clock that Job.now reads moves on
Tick ==
  /\ now < MaxNow
  /\ now' = now + 1
  /\ UNCHANGED <<meta, torn, queue, pc, frame, loc, worker, job_worker, dirs,
                 log>>

\* ------------------------------------------------------------ the system
NoLog ==
  [enq |-> <<>>, deq |-> <<>>,
   calls |-> [j \in Jobs |-> {}], submits |-> [j \in Jobs |-> 0],
   tally |-> [j \in Jobs |-> NoStats], sent |-> [j \in Jobs |-> <<>>],
   at_dequeue |-> [j \in Jobs |-> None], seen |-> [j \in Jobs |-> {}],
   fetches |-> [j \in Jobs |-> 0], staged |-> [j \in Jobs |-> 0],
   checkpoints |-> [j \in Jobs |-> <<>>],
   boots |-> 0, at_boot |-> [j \in Jobs |-> None],
   deq_at_stop |-> [w \in Workers |-> 0],
   clients |-> [j \in Jobs |-> {}]]

\* The process after `python app.py` ran init_worker(): one worker, started
Init ==
  /\ meta = [j \in Jobs |-> NoFile]
  /\ torn = [j \in Jobs |-> FALSE]
  /\ queue = <<>>
  /\ pc = [p \in Procs |->
             IF p = ThreadProc(1) THEN "loop"
             ELSE IF p[1] = "thread" THEN "unborn" ELSE "idle"]
  /\ frame = [p \in Procs |-> NoFrame]
  /\ loc = [p \in Procs |->
              CASE p[1] = "thread" -> IdleThread(IF p[2] = 1 THEN 1 ELSE 0)
                [] p[1] = "cancel" ->
                     [id |-> 0, at_request |-> None, result |-> None,
                      e |-> None]
                [] p[1] = "create" ->
                     [job |-> NoJob, loaded |-> NoJob, e |-> None]
                [] p[1] = "restart" -> [w |-> 0, e |-> None]]
  /\ worker = [w \in Workers |-> IF w = 1 THEN StartedWorker(1) ELSE NoWorker]
  /\ job_worker = 1
  /\ dirs = [j \in Jobs |-> [input |-> {}, output |-> {}]]
  /\ now = 0
  /\ log = NoLog

\* The process ends at any moment and `python app.py` runs again, with q as
\* the content of the new queue: every thread and request of the old process
\* is gone, the module level makes a new JobQueue and a JobStore over the
\* same storage root, init_worker() makes and starts a new worker.  A job id
\* is a uuid4: a create request of the new process makes a new id
ProcessStart(q) ==
  /\ log.boots < MaxBoots
  /\ queue' = q
  /\ pc' = [p \in Procs |->
              IF p = ThreadProc(1) THEN "loop"
              ELSE IF p[1] = "thread" THEN "unborn"
              ELSE IF pc[p] = "idle" THEN "idle" ELSE "done"]
  /\ frame' = [p \in Procs |-> NoFrame]
  /\ loc' = [p \in Procs |->
               IF p[1] = "thread" THEN IdleThread(IF p[2] = 1 THEN 1 ELSE 0)
               ELSE loc[p]]
  /\ worker' = [w \in Workers |->
                  IF w = 1 THEN StartedWorker(1) ELSE NoWorker]
  /\ job_worker' = 1
  /\ log' = [log EXCEPT
               !.boots = @ + 1,
               !.at_boot = [j \in Jobs |->
                              IF torn[j] THEN "unreadable" ELSE Persisted(j)]]
  /\ UNCHANGED <<meta, torn, dirs, now>>

\* A start that puts a job found QUEUED in the store into the new queue
ProcessRestartRecover ==
  LET found == {j \in Jobs : ~torn[j] /\ Persisted(j) = JobStatus.QUEUED} IN
  ProcessStart(IF found = {} THEN <<>>
               ELSE <<from_dict(meta[CHOOSE j \in found : TRUE])>>)

\* app.py at module level: job_queue = JobQueue(), nothing read from the store
ProcessRestart == ProcessStart(<<>>)

\* The steps of the processes: of the create requests JS, the cancel requests
\* CS, the save workflow requests RS and the loop threads TS, with an
\* environment that gives the answers OK (does a call to the backend, the
\* file system or a delivery target succeed), HR (history replies) and NS
\* (downloads that succeed)
StoreStep(PS) == \E p \in PS : UpdateLoad(p) \/ SaveOpen(p) \/ SaveWrite(p)

CreateStep(JS) ==
  \/ \E j \in JS : (\E tmpl \in Templates : CreateJob(j, tmpl)) \/ EnqueueJob(j)
  \/ StoreStep({CreateProc(j) : j \in JS})

CancelStep(CS, JS) ==
  \/ \E c \in CS : (\E id \in JS : CancelJob(c, id)) \/ CancelReturn(c)
  \/ StoreStep({CancelProc(c) : c \in CS})

LoopStep(TS) ==
  \/ \E t \in TS : WorkerLoop(t) \/ Dequeue(t) \/ Admission(t)
  \/ StoreStep({ThreadProc(t) : t \in TS})

StageStep(TS, OK) ==
  \E t \in TS, ok \in OK :
    BuildSong(t, ok) \/ StageInput(t, ok) \/ Upload(t, ok) \/ Build(t, ok)
    \/ Submit(t, ok)

PollStep(TS, HR) ==
  \E t \in TS :
    (\E d \in 0..(TimeoutTicks + 1) : PollTimeout(t, d))
    \/ PollLoad(t) \/ PollSleep(t)
    \/ \E h \in HR : PollHistory(t, h)

FinishStep(TS, NS, OK) ==
  \E t \in TS :
    (\E n \in NS : Download(t, n))
    \/ Complete(t) \/ CountSuccess(t)
    \/ \E ok \in OK : Telegram(t, ok) \/ Webhook(t, ok)

TimeoutStep(TS) == \E t \in TS : ExceptTimeout(t) \/ CountTimedOut(t)

FailStep(TS) ==
  \E t \in TS : ExceptException(t) \/ LoopExcept(t) \/ CountFailed(t)

RestartStep(RS) ==
  \E r \in RS :
    RestartStop(r) \/ RestartJoin(r)
    \/ \E w \in Workers, t \in Threads : InitWorker(r, w, t)

\* The steps of the loop threads TS when any call may fail
ThreadNext(TS) ==
  \/ LoopStep(TS) \/ StageStep(TS, BOOLEAN) \/ PollStep(TS, HistoryReplies)
  \/ FinishStep(TS, 0..MaxFiles, BOOLEAN) \/ TimeoutStep(TS) \/ FailStep(TS)

\* The steps of the loop threads TS with a backend and a file system that
\* work: the history replies are "not yet" or the outputs
HealthyReplies ==
  {h \in HistoryReplies :
     ~h.raises /\ h.status_str # "error" /\ h.outputs \in {<<>>, Outputs1}}

HealthyThreadNext(TS) ==
  \/ LoopStep(TS) \/ StageStep(TS, {TRUE}) \/ PollStep(TS, HealthyReplies)
  \/ FinishStep(TS, {MaxFiles}, {TRUE}) \/ TimeoutStep(TS)

\* One job and one worker, never restarted: every outcome of every call,
\* every interleaving with the cancel requests
Next ==
  \/ CreateStep(PipelineJobs) \/ CancelStep(CancelReqs, PipelineJobs)
  \/ ThreadNext(Threads)

Spec == Init /\ [][Next]_vars

\* The same with one cancel request, and a loop thread that can take a step
\* takes one: every call of the pipeline returns or raises
NextLive ==
  \/ CreateStep(PipelineJobs) \/ CancelStep(PipelineCancels, PipelineJobs)
  \/ ThreadNext(Threads)

SpecLive ==
  Init /\ [][NextLive]_vars /\ \A t \in Threads : WF_vars(ThreadNext({t}))

\* The pipeline with one cancel request, every interleaving
SpecPipeline == Init /\ [][NextLive]_vars

\* Several jobs, one of them with a cancel request, a backend that works;
\* every thread that can take a step takes one: the loop threads, and the
\* request handlers once they have started
ServiceThreadNext(TS) == HealthyThreadNext(TS) \/ FailStep(TS)

HandlerNext ==
  \/ \E j \in Jobs : EnqueueJob(j)
  \/ \E c \in PipelineCancels : CancelReturn(c)
  \/ StoreStep({CreateProc(j) : j \in Jobs}
               \cup {CancelProc(c) : c \in PipelineCancels})

NextService ==
  \/ CreateStep(Jobs) \/ CancelStep(PipelineCancels, PipelineJobs)
  \/ ServiceThreadNext(Threads)

SpecService ==
  /\ Init /\ [][NextService]_vars
  /\ \A t \in Threads : WF_vars(ServiceThreadNext({t}))
  /\ WF_vars(HandlerNext)

\* The worker restarted by the save workflow handler while jobs come in
NextLifecycle ==
  \/ CreateStep(Jobs) \/ HealthyThreadNext(Threads) \/ RestartStep(RestartReqs)

SpecLifecycle == Init /\ [][NextLifecycle]_vars

\* One job with one cancel request, any call of its pipeline may fail, and
\* one save workflow request restarts the worker at any moment
NextRestart == NextLive \/ RestartStep({1})

SpecRestart == Init /\ [][NextRestart]_vars

\* One worker object that callers start and stop while jobs come in
StartStopStep(RS) ==
  \E r \in RS :
    \/ \E t \in Threads : Start(r, job_worker, t)
    \/ Stop(r, job_worker) \/ StopJoin(r)

NextStartStop ==
  \/ CreateStep(Jobs) \/ HealthyThreadNext(Threads)
  \/ StartStopStep(RestartReqs)

SpecStartStop == Init /\ [][NextStartStop]_vars

\* One job with one cancel request, any call of its pipeline may fail, and
\* the process is restarted at any moment, before or after the job came in
NextReboot == NextLive \/ ProcessRestart

SpecReboot == Init /\ [][NextReboot]_vars

\* The worker stopped at any moment and not started again, while jobs come
\* in; the loop thread (there is one, no worker is started here) takes a step
\* when it can
NextStop ==
  \/ CreateStep(StopJobs) \/ HealthyThreadNext(Threads)
  \/ \E r \in RestartReqs : Stop(r, job_worker) \/ StopJoin(r)

SpecStop ==
  /\ Init /\ [][NextStop]_vars
  /\ WF_vars(HealthyThreadNext(Threads))

\* One job with one cancel request, any call of its pipeline may fail, and
\* the backend URL is saved at any moment
NextClient == NextLive \/ save_comfyui_config

SpecClient == Init /\ [][NextClient]_vars

\* Producers and the one consumer: the worker never restarted
NextQueue == CreateStep(Jobs) \/ HealthyThreadNext(Threads)

SpecQueue == Init /\ [][NextQueue]_vars

\* The same while the wall clock advances
NextClock == NextQueue \/ Tick

SpecClock == Init /\ [][NextClock]_vars

\* The pipeline with one cancel request while the wall clock advances
NextStamps == NextLive \/ Tick

SpecStamps == Init /\ [][NextStamps]_vars

\* The store alone: one caller saves a job record and loads it by its id.
\* The records are the ones the program writes: a created job with the fields
\* the worker and the cancel handler set later
Records(j) ==
  { [NewJob(j, t, tmpl) EXCEPT !.status = st, !.updated_at = u,
                               !.prompt_id = pid, !.progress = pr,
                               !.files = fs, !.error = err] :
      t \in 0..MaxNow, u \in 0..MaxNow, tmpl \in Templates,
      st \in StatusNames, pid \in {None, "p1"}, pr \in {0, 50, 100},
      fs \in {<<>>, <<"a.mp4">>, <<"a.mp4", "b.mp3">>},
      err \in {None, "ComfyUI error: boom"} }

InitStore ==
  \E j \in Jobs : \E job \in Records(j) :
    /\ meta = [i \in Jobs |-> NoFile]
    /\ torn = [i \in Jobs |-> FALSE]
    /\ queue = <<>>
    /\ pc = [p \in Procs |->
               IF p = CreateProc(j) THEN "save_open"
               ELSE IF p = ThreadProc(1) THEN "loop"
               ELSE IF p[1] = "thread" THEN "unborn" ELSE "idle"]
    /\ frame = [p \in Procs |->
                  IF p = CreateProc(j)
                  THEN [NoFrame EXCEPT !.id = j, !.job = job, !.ret = "load",
                                       !.exc = "done"]
                  ELSE NoFrame]
    /\ loc = [p \in Procs |->
                CASE p[1] = "thread" -> IdleThread(IF p[2] = 1 THEN 1 ELSE 0)
                  [] p[1] = "cancel" ->
                       [id |-> 0, at_request |-> None, result |-> None,
                        e |-> None]
                  [] p[1] = "create" ->
                       [job |-> IF p[2] = j THEN job ELSE NoJob,
                        loaded |-> NoJob, e |-> None]
                  [] p[1] = "restart" -> [w |-> 0, e |-> None]]
    /\ worker = [w \in Workers |->
                   IF w = 1 THEN StartedWorker(1) ELSE NoWorker]
    /\ job_worker = 1
    /\ dirs = [i \in Jobs |-> [input |-> {}, output |-> {}]]
    /\ now = 0
    /\ log = NoLog

NextStore ==
  \E j \in Jobs :
    SaveOpen(CreateProc(j)) \/ SaveWrite(CreateProc(j)) \/ Load(CreateProc(j))

SpecStore == InitStore /\ [][NextStore]_vars

\* The store alone: one caller runs store.update(id, **patch) and then
\* store.load(id), for an id with a record and for an id with none.  The
\* patches are the ones the worker and the cancel handler send, and one with
\* a key that is no attribute of Job
Patches ==
  { [status |-> "RUNNING", progress |-> 10],
    [progress |-> 20],
    [prompt_id |-> "prompt-1", progress |-> 50],
    [status |-> "COMPLETED", progress |-> 100, files |-> <<"a.mp4">>],
    [status |-> "FAILED", error |-> "ComfyUI error: boom"],
    [status |-> "CANCELED"],
    [progress |-> 30, stage |-> "upload"],
    [progress |-> 30, to_dict |-> "x"] }

InitUpdate ==
  \E j \in Jobs : \E job \in Records(j) :
  \E present \in BOOLEAN : \E patch \in Patches : \E t \in 0..MaxNow :
    /\ job.created_at <= job.updated_at /\ job.updated_at <= t
    /\ meta = [i \in Jobs |->
                 IF i = j /\ present THEN to_dict(job) ELSE NoFile]
    /\ torn = [i \in Jobs |-> FALSE]
    /\ queue = <<>>
    /\ pc = [p \in Procs |->
               IF p = CreateProc(j) THEN "update_load"
               ELSE IF p = ThreadProc(1) THEN "loop"
               ELSE IF p[1] = "thread" THEN "unborn" ELSE "idle"]
    /\ frame = [p \in Procs |->
                  IF p = CreateProc(j)
                  THEN [NoFrame EXCEPT !.id = j, !.patch = patch,
                                       !.ret = "load", !.exc = "done"]
                  ELSE NoFrame]
    /\ loc = [p \in Procs |->
                CASE p[1] = "thread" -> IdleThread(IF p[2] = 1 THEN 1 ELSE 0)
                  [] p[1] = "cancel" ->
                       [id |-> 0, at_request |-> None, result |-> None,
                        e |-> None]
                  [] p[1] = "create" ->
                       [job |-> IF p[2] = j THEN job ELSE NoJob,
                        loaded |-> NoJob, e |-> None]
                  [] p[1] = "restart" -> [w |-> 0, e |-> None]]
    /\ worker = [w \in Workers |->
                   IF w = 1 THEN StartedWorker(1) ELSE NoWorker]
    /\ job_worker = 1
    /\ dirs = [i \in Jobs |-> [input |-> {}, output |-> {}]]
    /\ now = t
    /\ log = NoLog

NextUpdate ==
  \E j \in Jobs : StoreStep({CreateProc(j)}) \/ Load(CreateProc(j))

SpecUpdate == InitUpdate /\ [][NextUpdate]_vars

\* Staging alone: a loop thread holds a job that it marked running, with
\* anything in the job's input directory, and runs _stage_input and the
\* progress update, then _stage_input again
StageUrls == {"https://h/a.png", "http://h/a.png", "telegram://f"}

InitStage ==
  \E j \in Jobs : \E tmpl \in Templates : \E url \in StageUrls :
  \E input \in SUBSET {"input.png", "photo.jpg", "notes.txt"} :
    LET job == [NewJob(j, 0, tmpl) EXCEPT !.input_image_url = url] IN
    /\ tmpl.params.workflow_type = None
    /\ meta = [i \in Jobs |->
                 IF i = j
                 THEN to_dict([job EXCEPT !.status = "RUNNING",
                                          !.progress = 10])
                 ELSE NoFile]
    /\ torn = [i \in Jobs |-> FALSE]
    /\ queue = <<>>
    /\ pc = [p \in Procs |->
               IF p = ThreadProc(1) THEN "branch"
               ELSE IF p[1] = "thread" THEN "unborn" ELSE "idle"]
    /\ frame = [p \in Procs |-> NoFrame]
    /\ loc = [p \in Procs |->
                CASE p[1] = "thread" ->
                       IF p[2] = 1 THEN [IdleThread(1) EXCEPT !.job = job]
                       ELSE IdleThread(0)
                  [] p[1] = "cancel" ->
                       [id |-> 0, at_request |-> None, result |-> None,
                        e |-> None]
                  [] p[1] = "create" ->
                       [job |-> NoJob, loaded |-> NoJob, e |-> None]
                  [] p[1] = "restart" -> [w |-> 0, e |-> None]]
    /\ worker = [w \in Workers |->
                   IF w = 1 THEN StartedWorker(1) ELSE NoWorker]
    /\ job_worker = 1
    /\ dirs = [i \in Jobs |->
                 [input |-> IF i = j THEN input ELSE {}, output |-> {}]]
    /\ now = 0
    /\ log = NoLog

NextStage ==
  \E t \in Threads :
    \/ \E ok \in BOOLEAN : StageInput(t, ok)
    \/ StoreStep({ThreadProc(t)})
    \/ StageAgain(t)

SpecStage == InitStage /\ [][NextStage]_vars

\* ------------------------------------------------------------ the claims
HasRecord(j) == meta[j] # NoFile
Status(j) == meta[j].status
UpdatePcs == {"update_load", "save_open", "save_write"}

\* The loop thread t holds job j (from its dequeue to its return to the loop)
Holds(t, j) == loc[ThreadProc(t)].job.id = j

\* No loop thread holds j any more, and one did
Finished(j) ==
  /\ \E i \in 1..Len(log.deq) : log.deq[i] = j
  /\ \A t \in Threads : ~Holds(t, j)

\* C1: a job whose persisted status was CANCELED when the worker dequeued it
\* gets no backend call, keeps the persisted status CANCELED, and counts as
\* one cancellation and nothing else
C1_CanceledInQueueIsDropped ==
  \A j \in Jobs :
    log.at_dequeue[j] = JobStatus.CANCELED =>
      /\ log.calls[j] = {}
      /\ Status(j) = JobStatus.CANCELED
      /\ log.tally[j].success = 0 /\ log.tally[j].failed = 0
      /\ log.tally[j].timed_out = 0 /\ log.tally[j].canceled <= 1
      /\ Finished(j) => log.tally[j].canceled = 1

\* C2: every change of a persisted status is a transition of the state
\* machine QUEUED -> RUNNING -> {COMPLETED, FAILED, TIMED_OUT, CANCELED}, or
\* QUEUED -> CANCELED
AllowedTransitions ==
  { <<JobStatus.QUEUED, JobStatus.RUNNING>>,
    <<JobStatus.QUEUED, JobStatus.CANCELED>>,
    <<JobStatus.RUNNING, JobStatus.COMPLETED>>,
    <<JobStatus.RUNNING, JobStatus.FAILED>>,
    <<JobStatus.RUNNING, JobStatus.TIMED_OUT>>,
    <<JobStatus.RUNNING, JobStatus.CANCELED>> }

C2_StatusOnlyMovesForward ==
  [][\A j \in Jobs :
       HasRecord(j) /\ Status(j)' # Status(j) =>
         <<Status(j), Status(j)'>> \in AllowedTransitions]_vars

\* C3: a job whose poll loop found the record CANCELED ends with persisted
\* status CANCELED, counted as canceled and not as failed
C3_CanceledWhileRunningEndsCanceled ==
  \A j \in Jobs :
    "poll found canceled" \in log.seen[j] /\ Finished(j) =>
      /\ Status(j) = JobStatus.CANCELED
      /\ log.tally[j].canceled = 1
      /\ log.tally[j].failed = 0

\* C4: at most one loop thread is between the write of RUNNING and the write
\* of the terminal status of its job
InPipeline(t) ==
  LET p == ThreadProc(t) IN
  /\ loc[p].job.id # 0
  /\ pc[p] \notin {"admission", "count_success", "count_timed_out",
                   "count_failed", "telegram", "webhook"}
  /\ ~(pc[p] \in UpdatePcs /\ frame[p].ret = "branch")

C4_OneJobAtATime == Cardinality({t \in Threads : InPipeline(t)}) <= 1

\* C5: the jobs dequeued so far, followed by the jobs waiting, are the jobs
\* in the order their enqueues took effect, and a dequeue from the empty queue
\* gives no job
RECURSIVE Ids(_)
Ids(q) == IF q = <<>> THEN <<>> ELSE <<Head(q).id>> \o Ids(Tail(q))

C5_Fifo ==
  /\ log.deq \o Ids(queue) = log.enq
  /\ dequeue(<<>>).job = NoJob

\* every job dequeued, the job created last enqueued first
C5_Witness ==
  /\ Len(log.deq) = MaxJobs
  /\ log.deq = log.enq
  /\ log.enq[1] = MaxJobs

\* C6: no load of a record ever finds the file empty or cut short
C6_LoadsSeeWholeRecords == \A p \in Procs : loc[p].e # "Expecting value"

\* C7: a persisted record with files is COMPLETED
C7_FilesOnlyWhenCompleted ==
  \A j \in Jobs : meta[j].files # <<>> => Status(j) = JobStatus.COMPLETED

\* C8: the persisted progress of a job never decreases
C8_ProgressNeverDecreases ==
  [][\A j \in Jobs : HasRecord(j) => meta[j].progress' >= meta[j].progress]_vars

\* C9: a persisted record at progress 100 is COMPLETED
C9_FullProgressOnlyWhenCompleted ==
  \A j \in Jobs : meta[j].progress = 100 => Status(j) = JobStatus.COMPLETED

\* C10: a job that was submitted, that no cancel request was accepted for and
\* whose history never shows outputs or an error, ends TIMED_OUT with an
\* error message, counted once as timed out
Submitted(j) ==
  \E t \in Threads : Holds(t, j) /\ loc[ThreadProc(t)].prompt_id # None

Excused(j) == log.seen[j] \cap {"canceled", "outputs", "error"} # {}

TimedOutOnce(j) ==
  /\ Status(j) = JobStatus.TIMED_OUT
  /\ meta[j].error # None
  /\ log.tally[j] = [NoStats EXCEPT !.timed_out = 1]

C10_EventuallyTimedOut ==
  \A j \in Jobs : Submitted(j) ~> (TimedOutOnce(j) \/ Excused(j))

C10_Witness == \E j \in Jobs : TimedOutOnce(j) /\ ~Excused(j)

\* C11: a persisted status becomes TIMED_OUT only by the write of the thread
\* that holds the job, after a timeout check of its poll loop at which the
\* time since the start of the job's pipeline was more than the timeout
C11_TimedOutOnlyPastTimeout ==
  [][\A j \in Jobs :
       Status(j)' = JobStatus.TIMED_OUT /\ Status(j) # JobStatus.TIMED_OUT =>
         \E t \in Threads :
           /\ Holds(t, j)
           /\ pc[ThreadProc(t)] = "save_write"
           /\ loc[ThreadProc(t)].e = "Job timed out"
           /\ loc[ThreadProc(t)].elapsed > TimeoutTicks
           /\ loc[ThreadProc(t)].prompt_id # None]_vars

\* a job that timed out after its history was asked for
C11_Witness ==
  \E j \in Jobs : Status(j) = JobStatus.TIMED_OUT /\ "history" \in log.calls[j]

\* C12: a poll iteration whose history query raises changes no record and no
\* counter and goes on to the sleep before the next iteration; and a job
\* whose history query raised ends only after outputs or a backend error
\* were found, a cancel request was accepted, or by the timeout
HistoryRaised(t) == \E h \in HistoryReplies : h.raises /\ PollHistory(t, h)

EndedForCause(j) ==
  \/ log.seen[j] \cap {"outputs", "error", "canceled"} # {}
  \/ log.tally[j].timed_out = 1

C12_HistoryErrorsAreRetried ==
  [][/\ \A t \in Threads :
          HistoryRaised(t) =>
            /\ pc'[ThreadProc(t)] = "poll_sleep"
            /\ meta' = meta
            /\ worker' = worker
     /\ \A j \in Jobs :
          ("history raised" \in log.seen[j] /\ Finished(j))' => EndedForCause(j)'
    ]_vars

\* a job completed after a history query that raised
C12_Witness ==
  \E j \in Jobs :
    "history raised" \in log.seen[j] /\ Status(j) = JobStatus.COMPLETED

\* C13: a job whose history reported status 'error' ends FAILED with the
\* backend's message as error, no files, one count of failed and nothing
\* else, and no download
C13_BackendErrorEndsFailed ==
  \A j \in Jobs :
    "error" \in log.seen[j] /\ Finished(j) =>
      /\ Status(j) = JobStatus.FAILED
      /\ "boom" \in log.seen[j] => meta[j].error = "ComfyUI error: boom"
      /\ meta[j].files = <<>>
      /\ log.tally[j] = [NoStats EXCEPT !.failed = 1]
      /\ "download" \notin log.calls[j]

\* C14: while the worker still holds a job whose persisted status is
\* COMPLETED, the persisted files are the filenames of the reported output
\* descriptors that have one, each of them in the job's output directory.
\* As claimed, in the order reported:
RECURSIVE ReportedNode(_)
ReportedNode(node) ==
  IF node = <<>> THEN <<>>
  ELSE NamedFiles(Head(node)[2]) \o ReportedNode(Tail(node))

RECURSIVE ReportedList(_)
ReportedList(outputs) ==
  IF outputs = <<>> THEN <<>>
  ELSE ReportedNode(Head(outputs)) \o ReportedList(Tail(outputs))

CompletedHolding(t, j) == Holds(t, j) /\ Status(j) = JobStatus.COMPLETED

C14_FilesInReportedOrder ==
  \A t \in Threads, j \in Jobs :
    CompletedHolding(t, j) =>
      /\ meta[j].files = ReportedList(loc[ThreadProc(t)].outputs)
      /\ \A i \in 1..Len(meta[j].files) : meta[j].files[i] \in dirs[j].output

\* As the code orders them: node by node as reported, within a node by type
\* in the order videos, gifs, images, audio, within a type as reported
C14_FilesInNodeAndTypeOrder ==
  \A t \in Threads, j \in Jobs :
    CompletedHolding(t, j) =>
      /\ meta[j].files = DownloadList(loc[ThreadProc(t)].outputs)
      /\ loc[ThreadProc(t)].outputs = Outputs1 =>
           meta[j].files = <<"a.mp4", "b.mp3">>
      /\ loc[ThreadProc(t)].outputs = Outputs2 =>
           meta[j].files = <<"c.png", "b.mp3">>
      /\ \A i \in 1..Len(meta[j].files) : meta[j].files[i] \in dirs[j].output

\* a job completed from a reply that names its audio before its image
C14_Witness ==
  \E t \in Threads, j \in Jobs :
    CompletedHolding(t, j) /\ loc[ThreadProc(t)].outputs = Outputs2

\* C15: a job with a failed notification or webhook delivery stays COMPLETED
\* at progress 100, counted once as a success and not as a failure
C15_DeliveryFailureIsHarmless ==
  \A j \in Jobs :
    "delivery failed" \in log.seen[j] =>
      /\ Status(j) = JobStatus.COMPLETED
      /\ meta[j].progress = 100
      /\ log.tally[j].success = 1
      /\ log.tally[j].failed = 0

\* C16: no loop thread whose worker's running flag is true has left its loop
\* by an exception
C16_LoopSurvivesEveryFailure ==
  \A t \in Threads :
    pc[ThreadProc(t)] = "crashed" => ~worker[loc[ThreadProc(t)].w].running

\* C17: a job the worker has finished has one count in all, in the counter
\* of its persisted status
CounterOf(status) ==
  CASE status = JobStatus.COMPLETED -> "success"
    [] status = JobStatus.FAILED -> "failed"
    [] status = JobStatus.TIMED_OUT -> "timed_out"
    [] status = JobStatus.CANCELED -> "canceled"
    [] OTHER -> "none"

Counts(j) ==
  log.tally[j].success + log.tally[j].failed + log.tally[j].timed_out
  + log.tally[j].canceled

C17_OneMatchingCountPerJob ==
  \A j \in Jobs :
    Finished(j) =>
      /\ Counts(j) = 1
      /\ CounterOf(Status(j)) \in DOMAIN NoStats
      /\ log.tally[j][CounterOf(Status(j))] = 1

\* C18: every job that was enqueued eventually has a terminal persisted
\* status
Enqueued(j) == \E i \in 1..Len(log.enq) : log.enq[i] = j

TerminalStatuses == {JobStatus[n] : n \in Terminal}

C18_EveryJobEnds ==
  \A j \in Jobs : Enqueued(j) ~> (Status(j) \in TerminalStatuses)

\* C19: a cancel request for a job whose persisted status is QUEUED or
\* RUNNING goes on to write CANCELED and answers success; for a job whose
\* persisted status is terminal it answers "already finished", for an unknown
\* id "not found", and in both cases it changes no record
CancelAnswered(c) ==
  LET p == CancelProc(c) IN
  pc[p] = "done" /\ loc[p].id # 0 =>
    loc[p].result =
      CASE loc[p].at_request = None -> "Job not found"
        [] loc[p].at_request \in TerminalStatuses -> "Job already finished"
        [] OTHER -> "success"

C19_CancelContract ==
  [][\A c \in CancelReqs :
       LET p == CancelProc(c) IN
       /\ CancelAnswered(c)'
       /\ pc[p] = "idle" /\ pc'[p] = "done" => meta' = meta /\ torn' = torn
       /\ pc[p] = "save_write" /\ pc'[p] = "cancel_return" =>
            Status(loc[p].id)' = JobStatus.CANCELED]_vars

\* C20: a job record that was saved and then loaded by its id comes back
\* equal to the saved one in every field
C20_SaveLoadRoundTrip ==
  \A j \in Jobs :
    LET p == CreateProc(j) IN
    pc[p] = "loaded" =>
      \A f \in JobFields : loc[p].loaded[f] = loc[p].job[f]

C20_Witness ==
  \E j \in Jobs :
    LET p == CreateProc(j) IN
    /\ pc[p] = "loaded"
    /\ loc[p].job.status = "COMPLETED"
    /\ loc[p].job.files = <<"a.mp4", "b.mp3">>
    /\ loc[p].job.params.workflow_type = "song"

\* C21: update on an id with no record returns not found (goes on after the
\* call with no exception), writes nothing and makes no directory, so exists
\* is still false; load of that id returns not found too
C21_UpdateOfMissingIsNotFound ==
  [][\A j \in Jobs :
       LET p == CreateProc(j) IN
       /\ pc[p] = "update_load" /\ ~exists(j) =>
            /\ pc'[p] = frame[p].ret /\ loc'[p].e = None
            /\ meta' = meta /\ torn' = torn /\ dirs' = dirs
            /\ ~exists(j)'
       /\ pc[p] = "load" /\ ~exists(j) =>
            /\ loc'[p].loaded = NoJob /\ loc'[p].e = None
            /\ ~exists(j)']_vars

C21_Witness ==
  \E j \in Jobs :
    LET p == CreateProc(j) IN
    pc[p] = "loaded" /\ ~exists(j) /\ loc[p].loaded = NoJob

\* C28: update on an existing record gives the loaded record with the patched
\* attributes set, every key of the patch that is no attribute ignored,
\* updated_at set to the time of the call and every other field as loaded; the
\* file then holds exactly that record, which is the one returned
Patched(old, patch, t) ==
  [f \in JobFields |->
     IF f = "updated_at" THEN t
     ELSE IF f \in DOMAIN patch THEN patch[f] ELSE old[f]]

C28_UpdateSetsExactlyThePatch ==
  [][\A j \in Jobs :
       LET p == CreateProc(j) IN
       /\ pc[p] = "update_load" /\ exists(j) =>
            /\ pc'[p] = "save_open"
            /\ \A f \in JobFields :
                 frame'[p].job[f] =
                   Patched(from_dict(meta[j]), frame[p].patch, now)[f]
       /\ pc[p] = "save_write" =>
            /\ pc'[p] = frame[p].ret /\ loc'[p].e = None
            /\ \A f \in JobFields : load(j)'[f] = frame[p].job[f]
            /\ load(j)' = Patched(loc[p].job, frame[p].patch, now)]_vars

\* C22: for a job with an http(s) url, a run of _stage_input with no
\* input.png in the input directory fetches once and adds input.png and
\* nothing else; a run with input.png there fetches nothing, changes nothing
\* in the directory and does not fail
C22_StagingIsIdempotent ==
  [][\A t \in Threads :
       LET p == ThreadProc(t)
           id == loc[p].job.id
           input == dirs[id].input IN
       /\ pc[p] = "branch" /\ pc'[p] # "branch"
       /\ ~IsTelegramUrl(loc[p].job.input_image_url)
       =>
       IF "input.png" \in input
       THEN /\ log'.fetches[id] = log.fetches[id]
            /\ dirs' = dirs
            /\ pc'[p] # "except"
       ELSE /\ log'.fetches[id] = log.fetches[id] + 1
            /\ dirs'[id].input \subseteq input \cup {"input.png"}
            /\ pc'[p] # "except" =>
                 dirs'[id].input = input \cup {"input.png"}]_vars

C22_Witness ==
  \E j \in Jobs :
    /\ log.staged[j] = 2 /\ log.fetches[j] = 1
    /\ dirs[j].input = {"input.png"}

\* C23: a job with a chat id that the worker ended as COMPLETED, FAILED or
\* TIMED_OUT had the notification step run for it, and a job with a webhook
\* url that reached any terminal status had the webhook step run for it
C23_EveryOutcomeIsDelivered ==
  \A j \in Jobs :
    Finished(j) /\ HasRecord(j) /\ ~torn[j] =>
      /\ meta[j].telegram_chat_id # None
         /\ Status(j) \in TerminalStatuses \ {JobStatus.CANCELED}
         => "telegram" \in log.seen[j]
      /\ meta[j].webhook_url # None /\ Status(j) \in TerminalStatuses
         => "webhook" \in log.seen[j]

\* C24: start on a running worker changes nothing, and of the loop threads
\* of one worker at most one is inside queue.dequeue at any time
Dequeuing(w) ==
  {t \in Threads : loc[ThreadProc(t)].w = w /\ pc[ThreadProc(t)] = "dequeue"}

C24_OneLoopThreadPerWorker ==
  [][/\ \A r \in RestartReqs, w \in Workers, t \in Threads :
          worker[w].running /\ Start(r, w, t) => UNCHANGED vars
     /\ \A w \in Workers : Cardinality(Dequeuing(w)') <= 1]_vars

\* C25: when a loop thread takes a job from the queue the job has a record,
\* and the update to RUNNING of a thread never comes back with "not found"
C25_SavedBeforeEnqueued ==
  [][\A t \in Threads :
       LET p == ThreadProc(t) IN
       /\ pc[p] = "dequeue" /\ pc'[p] = "admission" =>
            HasRecord(loc'[p].job.id) /\ exists(loc'[p].job.id)
       /\ pc[p] = "update_load" /\ frame[p].ret = "branch" =>
            pc'[p] # "branch"]_vars

C25_Witness ==
  \E t \in Threads :
    LET p == ThreadProc(t) IN
    /\ pc[p] = "branch" /\ loc[p].job.id = MaxJobs
    /\ Status(loc[p].job.id) = JobStatus.RUNNING

\* C26: the file write of a cancel request changes no field of the record
\* other than status and updated_at, and once a cancel request has written
\* CANCELED no later write changes the status
C26_CancelTouchesOnlyStatus ==
  [][/\ \A c \in CancelReqs :
          LET p == CancelProc(c)
              id == frame[p].id IN
          pc[p] = "save_write" =>
            \A f \in JobFields \ {"status", "updated_at"} :
              meta'[id][f] = meta[id][f]
     /\ \A j \in Jobs :
          HasRecord(j) /\ Status(j) = JobStatus.CANCELED =>
            Status(j)' = JobStatus.CANCELED]_vars

\* C27: the updated_at of a record never decreases and is never before its
\* created_at
C27_UpdatedAtNeverDecreases ==
  [][\A j \in Jobs :
       /\ HasRecord(j)' => meta'[j].created_at <= meta'[j].updated_at
       /\ HasRecord(j) => meta[j].updated_at <= meta'[j].updated_at]_vars

\* C29: a record gets its run id in a write that also sets progress 50, made
\* by a thread whose submission of that job the backend accepted with that
\* id; a run id in a record never changes afterwards; a record with a run id
\* belongs to a submitted job, and a record with progress below 50 has none
C29_RunIdSetOnceOnSubmit ==
  [][\A j \in Jobs :
       /\ HasRecord(j) /\ meta[j].prompt_id = None
          /\ meta'[j].prompt_id # None =>
            /\ meta'[j].progress = 50
            /\ \E t \in Threads :
                 Holds(t, j) /\ loc[ThreadProc(t)].prompt_id = meta'[j].prompt_id
       /\ HasRecord(j) /\ meta[j].prompt_id # None =>
            meta'[j].prompt_id = meta[j].prompt_id
       /\ meta'[j].prompt_id # None => "submit" \in log'.calls[j]
       /\ meta'[j].progress < 50 => meta'[j].prompt_id = None]_vars

\* C30: no job is enqueued, dequeued or submitted to the backend more than
\* once, and a job that was dequeued is not in the queue
Times(seq, j) == Cardinality({i \in 1..Len(seq) : seq[i] = j})

C30_ProcessedAtMostOnce ==
  \A j \in Jobs :
    /\ Times(log.enq, j) <= 1
    /\ Times(log.deq, j) <= 1
    /\ log.submits[j] <= 1
    /\ Times(log.deq, j) = 1 => Times(Ids(queue), j) = 0

C30_Witness ==
  \E j \in Jobs :
    /\ Finished(j) /\ log.submits[j] = 1
    /\ Status(j) = JobStatus.TIMED_OUT
    /\ worker[2].created
    /\ \E t \in Threads : pc[ThreadProc(t)] = "dequeue" /\ loc[ThreadProc(t)].w = 2

\* C31: a job whose submit call failed ends FAILED with the exception's
\* message as error, no run id, progress 40, no history query, no download,
\* no delivery, and one count of failed and nothing else
C31_SubmitFailureEndsFailed ==
  \A j \in Jobs :
    "submit failed" \in log.seen[j] /\ Finished(j) =>
      /\ Status(j) = JobStatus.FAILED
      /\ meta[j].error = "submit failed"
      /\ meta[j].prompt_id = None
      /\ meta[j].progress = 40
      /\ log.calls[j] \cap {"history", "download"} = {}
      /\ log.seen[j] \cap {"telegram", "webhook"} = {}
      /\ log.tally[j] = [NoStats EXCEPT !.failed = 1]

\* C32: the progress values a worker has written for a job are the first
\* ones of 10, 40, 50, 80, 90, 100 for a song job and of 10, 20, 30, 40, 50,
\* 80, 90, 100 for an image job, all of them once the job counts as a
\* success; a song job is never staged or uploaded; an image job is uploaded
\* only after it was staged and submitted only after the upload
Checkpoints(job) ==
  IF WorkflowType(job) = "song" THEN <<10, 40, 50, 80, 90, 100>>
  ELSE <<10, 20, 30, 40, 50, 80, 90, 100>>

IsPrefix(s, t) == Len(s) <= Len(t) /\ s = SubSeq(t, 1, Len(s))

C32_CheckpointsInOrder ==
  /\ \A j \in Jobs :
       HasRecord(j) =>
         /\ IsPrefix(log.checkpoints[j], Checkpoints(meta[j]))
         /\ log.tally[j].success = 1 =>
              log.checkpoints[j] = Checkpoints(meta[j])
         /\ WorkflowType(meta[j]) = "song" =>
              /\ log.staged[j] = 0 /\ log.fetches[j] = 0
              /\ "upload" \notin log.calls[j]
         /\ WorkflowType(meta[j]) # "song" =>
              /\ "upload" \in log.calls[j] => log.staged[j] >= 1
              /\ "submit" \in log.calls[j] => "upload" \in log.calls[j]
  /\ \A t \in Threads :
       LET p == ThreadProc(t) IN
       pc[p] = "submit" /\ WorkflowType(loc[p].job) # "song" =>
         Len(log.checkpoints[loc[p].job.id]) = 4

C32_Witness ==
  \E j \in Jobs :
    /\ WorkflowType(meta[j]) = "song"
    /\ log.checkpoints[j] = <<10, 40, 50, 80, 90, 100>>
    /\ "submit" \in log.calls[j] /\ Status(j) = JobStatus.COMPLETED

\* C33: one poll iteration checks the timeout, then the cancellation, then
\* the backend's error, then the outputs: past the timeout it raises the
\* timeout whatever the record says and queries nothing; with a CANCELED
\* record it raises "Job was canceled" and does not query the backend; a reply
\* with an error status raises the error even when it carries outputs
C33_PollChecksInOrder ==
  [][\A t \in Threads :
       LET p == ThreadProc(t)
           id == loc[p].job.id IN
       /\ pc[p] = "poll" /\ pc'[p] # "poll" =>
            /\ log' = log /\ meta' = meta
            /\ IF loc'[p].elapsed > TimeoutTicks
               THEN pc'[p] = "except_timeout" /\ loc'[p].e = "Job timed out"
               ELSE pc'[p] = "poll_load"
       /\ pc[p] = "poll_load" /\ pc'[p] # "poll_load" /\ ~torn[id]
          /\ Status(id) = JobStatus.CANCELED =>
            /\ pc'[p] = "except" /\ loc'[p].e = "Job was canceled"
            /\ log'.calls = log.calls
       /\ pc'[p] = "poll_history" /\ pc[p] # "poll_history" =>
            pc[p] = "poll_load" /\ Status(id) # JobStatus.CANCELED
       /\ \A h \in HistoryReplies :
            PollHistory(t, h) /\ ~h.raises /\ h.present
            /\ h.status_str = "error" =>
              /\ pc'[p] = "except" /\ loc'[p].e = ErrorText(h)
              /\ loc'[p].outputs = loc[p].outputs]_vars

C33_Witness ==
  \E t \in Threads :
    LET p == ThreadProc(t) IN
    /\ pc[p] = "except_timeout"
    /\ Status(loc[p].job.id) = JobStatus.CANCELED
    /\ "history" \in log.calls[loc[p].job.id]

\* C34: a job whose cancel request was saved after the last cancel check of
\* its pipeline (during the history query that returned the outputs, or
\* between that reply and the update to COMPLETED) and whose download did
\* not fail is retrieved and ends with persisted status COMPLETED
CanceledLate(j) ==
  \/ "canceled after last check" \in log.seen[j]
  \/ /\ "canceled during query" \in log.seen[j]
     /\ "outputs" \in log.seen[j]
     /\ "poll found canceled" \notin log.seen[j]

C34_LateCancelCompletes ==
  \A j \in Jobs :
    CanceledLate(j) /\ Finished(j) /\ "download failed" \notin log.seen[j] =>
      /\ Status(j) = JobStatus.COMPLETED
      /\ log.tally[j].success = 1

\* C35 as stated: after a restart of the process the queue is empty, a job
\* found in the store is never in the queue, held by a loop thread, or the
\* subject of a backend call or a counter again, and a job that was QUEUED or
\* RUNNING at the restart has that persisted status ever after
FoundAtBoot(j) == log.boots >= 1 /\ log.at_boot[j] # None

NotProcessedAgain(j) ==
  /\ log.boots' > log.boots => queue' = <<>>
  /\ \A i \in 1..Len(queue') : queue'[i].id # j
  /\ \A t \in Threads : ~Holds(t, j)'
  /\ log.boots' = log.boots =>
       /\ log.calls'[j] = log.calls[j] /\ log.submits'[j] = log.submits[j]
       /\ log.tally'[j] = log.tally[j] /\ log.sent'[j] = log.sent[j]

C35_StaleJobKeepsStatusForever ==
  [][\A j \in Jobs :
       FoundAtBoot(j)' =>
         /\ NotProcessedAgain(j)
         /\ log.at_boot'[j] \in {JobStatus.QUEUED, JobStatus.RUNNING} =>
              Persisted(j)' = log.at_boot'[j]]_vars

\* C35 amended: the same, but the persisted status of a job found in the
\* store changes after the restart only by the save of a cancel request, to
\* CANCELED, and only for a job that was not finished
C35_StaleJobChangedOnlyByCancel ==
  [][\A j \in Jobs :
       FoundAtBoot(j)' =>
         /\ NotProcessedAgain(j)
         /\ Persisted(j)' # Persisted(j) =>
              /\ Persisted(j)' = JobStatus.CANCELED
              /\ Persisted(j) \notin TerminalStatuses
              /\ \E c \in CancelReqs :
                   /\ pc[CancelProc(c)] = "save_write"
                   /\ pc'[CancelProc(c)] = "cancel_return"]_vars

C35_Witness ==
  \E j \in Jobs :
    /\ log.boots >= 1
    /\ log.at_boot[j] = JobStatus.RUNNING /\ Persisted(j) = JobStatus.CANCELED
    /\ log.submits[j] = 1
    /\ pc[ThreadProc(1)] = "dequeue"

\* C36: once stop() has cleared the running flag of a worker that is not
\* started again, its loop thread eventually ends, and it takes at most one
\* more job from the queue, with the dequeue it was already waiting in
Stopped(t) ==
  LET p == ThreadProc(t) IN pc[p] # "unborn" /\ ~worker[loc[p].w].running

C36_StoppedLoopEnds ==
  /\ [](\A t \in Threads :
         Stopped(t) =>
           Len(log.deq) <= log.deq_at_stop[loc[ThreadProc(t)].w] + 1)
  /\ [][\A t \in Threads :
          LET p == ThreadProc(t) IN
          pc[p] = "loop" /\ pc'[p] = "dequeue" => worker[loc[p].w].running]_vars
  /\ (\E t \in Threads : Stopped(t))
       ~> (\A t \in Threads :
             Stopped(t) => pc[ThreadProc(t)] \in {"exit", "crashed"})

C36_Witness ==
  \E t \in Threads :
    LET p == ThreadProc(t) IN
    /\ pc[p] = "exit" /\ Stopped(t)
    /\ Len(log.deq) = log.deq_at_stop[loc[p].w] + 1
    /\ Len(queue) = 1

\* C37: the counters that the status endpoint reads (the stats of the
\* worker that job_worker names) never decrease
admin_status == worker[job_worker].stats

C37_CountersNeverDecrease ==
  [][\A k \in DOMAIN NoStats : admin_status'[k] >= admin_status[k]]_vars

\* C38: all the backend calls made for one job (upload, submit, history,
\* download) go to the same backend client
C38_OneClientPerJob ==
  \A j \in Jobs : Cardinality(log.clients[j]) <= 1

====
